---- MODULE Spec2Model ----
(***************************************************************************)
(* The session bridge of whatsapp-mirror-ui: the socket.io / REST server   *)
(* in src/server/server.js, and its earlier form in src/unnamed/part_000.  *)
(*                                                                         *)
(* The bridge holds lastQr and readyAt, reads client.info from the         *)
(* whatsapp-web.js client (the Adapter), and turns Adapter events into     *)
(* pushes to the connected sockets.  Every handler is a JavaScript async   *)
(* function: it runs without interruption up to its next await, and an     *)
(* awaited call settles in a later step.  A handler suspended at an await  *)
(* is an element of the bag tasks.                                         *)
(*                                                                         *)
(* op, out, res and calls describe the step that led to the current state: *)
(* which handler ran, the pushes it emitted in order, the HTTP response it *)
(* wrote and the Adapter calls it started.                                 *)
(***************************************************************************)
EXTENDS Integers, Sequences, FiniteSets, Bags, TLC

VARIABLES
    program,        \* which of the two server files is running
    lastQr,         \* server.js: let lastQr
    readyAt,        \* server.js: let readyAt
    info,           \* client.info, owned by the Adapter
    sockets,        \* the socket.io sockets currently connected
    lastBroadcast,  \* status named by the most recent io.emit('status', ...)
    tasks,          \* handlers suspended at an await
    op,             \* the handler step that produced this state
    out,            \* pushes emitted by that step, in emission order
    res,            \* HTTP response written by that step
    calls           \* Adapter / library calls started by that step

vars == <<program, lastQr, readyAt, info, sockets, lastBroadcast, tasks,
          op, out, res, calls>>

-----------------------------------------------------------------------------
(* Bounds of the model *)

MaxTasks == 2       \* handlers suspended at the same time
MaxClock == 1       \* clock readings are 1..MaxClock
MaxDrift == 1       \* milliseconds the clock may advance within one second

Programs   == {"server", "part_000"}
Channels   == {"s1", "s2"}
Challenges == {"qrA", "qrB"}
Times      == 1..MaxClock

\* readings of Date.now(), in milliseconds
Readings == { 1000 * t + d : t \in Times, d \in 0..MaxDrift }

\* the readings of a clock over n consecutive turns of a loop
Clocks(n) == { c \in [1..n -> Readings] : \A i \in 1..(n - 1) : c[i] <= c[i + 1] }

\* a clock that stands at second t for n turns
SteadyClock(n, t) == [i \in 1..n |-> 1000 * t]

-----------------------------------------------------------------------------
(* JavaScript values *)

Null      == "<null>"
Undefined == "<undefined>"
NoDate    == 0
NoSock    == "<gone>"

\* JavaScript truthiness of a string-or-absent value
Truthy(x) == x \notin {Null, Undefined, ""}

\* client.info: absent until the Adapter sets it
NoInfo      == [present |-> FALSE, pushname |-> Undefined]
InfoOf(p)   == [present |-> TRUE, pushname |-> p]
Pushnames   == {Undefined, "Alice"}

\* qrcode.toDataURL(qr): the challenge rendered as a PNG data URI
DataURL(qr) == "data:image/png;base64," \o qr

-----------------------------------------------------------------------------
(* Raw Adapter data *)

\* the characters "." of a regular expression without the s flag does not
\* match: line feed and carriage return (and U+2028, U+2029, which a string
\* of this module cannot hold)
LineTerminators == {"\n", "\r"}

\* /@.+$/ matches at position k of id: an "@" there, then one or more
\* characters up to the end of id, none of them a line terminator
MatchesAt(id, k) ==
    /\ SubSeq(id, k, k) = "@"
    /\ k < Len(id)
    /\ \A j \in (k + 1)..Len(id) : SubSeq(id, j, j) \notin LineTerminators

\* position of the leftmost match of /@.+$/ in id, 0 if there is none
FirstAt(id) ==
    LET ats == { k \in 1..Len(id) : MatchesAt(id, k) }
    IN  IF ats = {} THEN 0 ELSE CHOOSE k \in ats : \A j \in ats : k <= j

\* id.replace(/@.+$/, ''): the id without the leftmost match, which runs to
\* the end of id; the id itself when nothing matches
StripDomain(id) ==
    IF FirstAt(id) = 0 THEN id ELSE SubSeq(id, 1, FirstAt(id) - 1)

RawContact(id, name, pushname, biz) ==
    [id |-> id, name |-> name, pushname |-> pushname, isBusiness |-> biz]

AdapterContactLists ==
    { <<>>,
      <<RawContact("222@c.us", Undefined, "carol", TRUE)>> }

\* every list of up to MaxContacts raw contacts, each with its name and its
\* pushname present or absent; the contact at position k carries the k-th id
MaxContacts == 2

ContactIdOf(k) ==
    CASE k = 1 -> "111@c.us" [] k = 2 -> "222@c.us" [] k = 3 -> "333@g.us"
      [] OTHER -> "444@c.us"

ContactKinds == [name : {Undefined, "Bob"}, pushname : {Undefined, "carol"}]

RawContactLists ==
    UNION { { [k \in 1..n |->
                 RawContact(ContactIdOf(k), f[k].name, f[k].pushname, FALSE)] :
              f \in [1..n -> ContactKinds] } : n \in 0..MaxContacts }

\* outcome of client.getContactById(id): it throws, or returns a contact
\* whose presence.lastKnown is absent (0) or a time
PresenceOutcomes == {"throws", "nopresence", "known"}

\* timestamp 0 stands for an absent chat-level timestamp; last = FALSE for a
\* chat with no lastMessage; lastTs 0 for a lastMessage without timestamp
RawChat(id, user, name, title, grp, ts, last, lastTs, lastBody, lastType) ==
    [id |-> id, user |-> user, name |-> name, formattedTitle |-> title,
     isGroup |-> grp, timestamp |-> ts, last |-> last, lastTs |-> lastTs,
     lastBody |-> lastBody, lastType |-> lastType]

ChatA == RawChat("111@c.us", "111", "Bob", "Bob", FALSE, 2, TRUE, 2, "hi", "chat")
ChatB == RawChat("333@g.us", "333", Undefined, "Team", TRUE, 0, TRUE, 1, "", "image")

AdapterChatLists ==
    { <<>>, <<ChatA, ChatB>> }

\* every list of up to MaxChats chats, each with its chat-level timestamp and
\* its last message's timestamp present or absent; the chat at position k of
\* the Adapter's list carries the k-th id
MaxChats == 2
MaxStamp == 2

ChatIdOf(k) ==
    CASE k = 1 -> "111@c.us" [] k = 2 -> "222@c.us" [] k = 3 -> "333@g.us"
      [] k = 4 -> "444@c.us" [] OTHER -> "555@c.us"

ChatKinds ==
    { kd \in [ts : 0..MaxStamp, last : BOOLEAN, lastTs : 0..MaxStamp] :
        kd.last \/ kd.lastTs = 0 }

RawChatLists ==
    UNION { { [k \in 1..n |->
                 RawChat(ChatIdOf(k), StripDomain(ChatIdOf(k)), Undefined, Undefined,
                         FALSE, f[k].ts, f[k].last, f[k].lastTs, "", "image")] :
              f \in [1..n -> ChatKinds] } : n \in 0..MaxChats }

Messages == { [from |-> "111@c.us", body |-> "hi", id |-> "m1"] }

\* a text message and a message without text
IncomingMessages == Messages \cup { [from |-> "333@g.us", body |-> "", id |-> "m2"] }

-----------------------------------------------------------------------------
(* Data Projector: the pure part of fetchContacts and fetchChats *)

\* a || b on string-or-absent values
OrElse(a, b) == IF Truthy(a) THEN a ELSE b

\* the object fetchContacts pushes for raw contact c, given the lastSeen the
\* presence lookup produced (0 when the lookup threw or knew nothing)
ProjectContact(c, lastSeen) ==
    [id         |-> c.id,
     name       |-> OrElse(c.name, OrElse(c.pushname, StripDomain(c.id))),
     pushname   |-> OrElse(c.pushname, Null),
     number     |-> StripDomain(c.id),
     isBusiness |-> c.isBusiness,
     lastSeen   |-> lastSeen]

\* lastSeen after the try/catch around client.getContactById
LastSeenOf(outcome, t) == IF outcome = "known" THEN t ELSE NoDate

\* sort key of chatsRaw.sort: (x.timestamp || 0)
SortKey(ch) == ch.timestamp

\* Array.prototype.sort with comparator (a,b) => key(b) - key(a): stable,
\* descending.  InsertChat puts ch behind every element whose key is >= its own.
RECURSIVE InsertChat(_, _)
InsertChat(sorted, ch) ==
    IF sorted = <<>> THEN <<ch>>
    ELSE IF SortKey(Head(sorted)) >= SortKey(ch)
         THEN <<Head(sorted)>> \o InsertChat(Tail(sorted), ch)
         ELSE <<ch>> \o sorted

RECURSIVE SortChats(_)
SortChats(raw) ==
    IF raw = <<>> THEN <<>>
    ELSE InsertChat(SortChats(SubSeq(raw, 1, Len(raw) - 1)), raw[Len(raw)])

\* let ts = ch.timestamp || (lastMsg?.timestamp ? lastMsg.timestamp*1000 : Date.now())
\* now is the reading Date.now() gives in this turn of the loop
ChatTimestamp(ch, now) ==
    IF ch.timestamp # 0 THEN ch.timestamp
    ELSE IF ch.last /\ ch.lastTs # 0 THEN ch.lastTs * 1000
    ELSE now

\* the preview text
ChatBody(ch) ==
    IF ~ch.last THEN ""
    ELSE IF Truthy(ch.lastBody) THEN ch.lastBody
    ELSE IF ch.lastType = "chat" THEN ""
    ELSE OrElse(ch.lastType, "")

ProjectChat(ch, now) ==
    [id            |-> ch.id,
     name          |-> OrElse(ch.name, OrElse(ch.formattedTitle, OrElse(ch.user, ch.id))),
     isGroup       |-> ch.isGroup,
     lastMessage   |-> ChatBody(ch),
     lastTimestamp |-> ChatTimestamp(ch, now)]

\* what fetchChats returns when client.getChats() resolved with raw and the
\* clock reads clock[i] in the i-th turn of the loop over the sorted array
FetchChats(raw, clock) ==
    LET sorted == SortChats(raw)
    IN  [i \in 1..Len(sorted) |-> ProjectChat(sorted[i], clock[i])]

-----------------------------------------------------------------------------
(* Pushes, responses and suspended handlers *)

\* a push: via "io" is io.emit (to every connected socket), via "socket" is
\* socket.emit; to is the set of sockets it is delivered to
Push(via, to, event, text, list) ==
    [via |-> via, to |-> to, event |-> event, text |-> text, list |-> list]

IoEmit(event, text, list)        == Push("io", sockets, event, text, list)
SocketEmit(s, event, text, list) == Push("socket", {s} \cap sockets, event, text, list)

NoStatus == "<none>"

\* the status named by the last io.emit('status') among pushes, else prev
RECURSIVE LastIoStatus(_, _)
LastIoStatus(pushes, prev) ==
    IF pushes = <<>> THEN prev
    ELSE LET p == pushes[Len(pushes)]
         IN  IF p.via = "io" /\ p.event = "status" THEN p.text
             ELSE LastIoStatus(SubSeq(pushes, 1, Len(pushes) - 1), prev)

\* res.status(code).json({ok, ...})
Response(code, ok, text, list) == [code |-> code, ok |-> ok, text |-> text, list |-> list]
NoRes == Response(0, FALSE, "", <<>>)

\* the array an Adapter call resolved with, as the function that awaited the
\* call leaves it: fetchChats sorts chatsRaw in place, fetchContacts only
\* reads contactsRaw
ArrayAfter(name, input) == IF name = "getChats" THEN SortChats(input) ELSE input

\* the step taken: the handler (kind), the event or settled call that ran it
\* (name), its socket, its string arguments, the list an Adapter call
\* resolved with (input) and that same array after the step (left)
OpIn(name, kind, sock, a, b, input) ==
    [name |-> name, kind |-> kind, sock |-> sock, a |-> a, b |-> b, input |-> input,
     left |-> ArrayAfter(name, input)]
Op(name, kind, sock, a, b) == OpIn(name, kind, sock, a, b, <<>>)

\* a handler suspended at an await.  cst is where its fetchContacts() stands,
\* hst where its fetchChats() stands: "idle" (not called), the Adapter call
\* awaited, "done" or "failed".  seq and overtaken record history
\* for a client.on('qr') handler: seq is the number of qr handlers that
\* arrived before it and are still suspended, overtaken the sockets, connected
\* ever since, that were sent the status, qr or message pushes of an Adapter
\* event that arrived later while this handler has sent none
NewTask(kind, sock, arg, cst, hst) ==
    [kind |-> kind, sock |-> sock, arg |-> arg,
     cst |-> cst, raw |-> <<>>, acc |-> <<>>,
     hst |-> hst, chats |-> <<>>, seq |-> 0, overtaken |-> {}]

\* the suspended handlers form a bag: which of them resumes next is up to
\* the calls they await, not to the order they were suspended in
Suspended      == BagToSet(tasks)
Suspend(t)     == tasks (+) SetToBag({t})
Finish(t)      == tasks (-) SetToBag({t})
Replace(t, t2) == (tasks (-) SetToBag({t})) (+) SetToBag({t2})

Room == BagCardinality(tasks) < MaxTasks

\* the client.on('qr') handlers awaiting their encoding
PendingQr == [t \in { u \in Suspended : u.kind = "qr" } |-> tasks[t]]

\* the suspended handlers once an Adapter event that has just arrived emitted
\* pushes from its handler's synchronous part: the client.on('qr') handlers
\* still awaiting toDataURL have emitted nothing yet
Overtake(pushes) ==
    LET Mark(t) == IF t.kind = "qr" THEN [t EXCEPT !.overtaken = @ \cup sockets] ELSE t
    IN  IF pushes = <<>> THEN tasks ELSE BagOfAll(Mark, tasks)

Settled(st) == st \in {"done", "failed"}

\* bookkeeping shared by every step
Step(o, pushes, response, started) ==
    /\ op' = o
    /\ out' = pushes
    /\ res' = response
    /\ calls' = started
    /\ lastBroadcast' = LastIoStatus(pushes, lastBroadcast)

-----------------------------------------------------------------------------
Init ==
    /\ program \in Programs
    /\ lastQr = Null
    /\ readyAt = NoDate
    /\ info = NoInfo
    /\ sockets = {}
    /\ lastBroadcast = NoStatus
    /\ tasks = EmptyBag
    /\ op = Op("init", "", NoSock, "", "")
    /\ out = <<>>
    /\ res = NoRes
    /\ calls = <<>>

-----------------------------------------------------------------------------
(* Fan-out: socket.io handlers *)

\* socket.emit('status', {status: client.info?.pushname ? 'connected' : 'initializing'})
InfoStatus == IF info.present /\ Truthy(info.pushname) THEN "connected" ELSE "initializing"

\* faulty variant: the replay stops after the qr push
ConnectionPushesNoQrStatus(s) ==
    <<Push("socket", {s}, "status", InfoStatus, <<>>)>>
    \o (IF Truthy(lastQr) THEN <<Push("socket", {s}, "qr", lastQr, <<>>)>> ELSE <<>>)

\* the pushes of io.on('connection') in server.js
ConnectionPushes(s) ==
    <<Push("socket", {s}, "status", InfoStatus, <<>>)>>
    \o (IF Truthy(lastQr)
        THEN <<Push("socket", {s}, "qr", lastQr, <<>>),
               Push("socket", {s}, "status", "qr", <<>>)>>
        ELSE <<>>)

\* the pushes of io.on('connection') in part_000
BasicConnectionPushes(s) ==
    <<Push("socket", {s}, "status", InfoStatus, <<>>)>>

Connection(s) ==
    /\ s \notin sockets
    /\ sockets' = sockets \cup {s}
    /\ Step(Op("connection", "connection", s, "", ""),
            IF program = "server" THEN ConnectionPushes(s) ELSE BasicConnectionPushes(s),
            NoRes, <<>>)
    /\ UNCHANGED <<program, lastQr, readyAt, info, tasks>>

\* the socket goes away; a handler still suspended for it keeps a dead socket
Disconnect(s) ==
    /\ s \in sockets
    /\ sockets' = sockets \ {s}
    /\ LET Orphan(t) == [t EXCEPT !.sock = IF @ = s THEN NoSock ELSE @,
                                   !.overtaken = @ \ {s}]
       IN  tasks' = BagOfAll(Orphan, tasks)
    /\ Step(Op("disconnect", "disconnect", s, "", ""), <<>>, NoRes, <<>>)
    /\ UNCHANGED <<program, lastQr, readyAt, info>>

\* socket.on('request-data'): server.js only
RequestData(s) ==
    /\ program = "server"
    /\ s \in sockets
    /\ IF info.present
       THEN /\ Room
            /\ tasks' = Suspend(NewTask("request-data", s, "", "getContacts", "getChats"))
            /\ Step(Op("request-data", "request-data", s, "", ""), <<>>, NoRes,
                    <<"getContacts", "getChats">>)
       ELSE /\ tasks' = tasks
            /\ Step(Op("request-data", "request-data", s, "", ""), <<>>, NoRes, <<>>)
    /\ UNCHANGED <<program, lastQr, readyAt, info, sockets>>

-----------------------------------------------------------------------------
(* Adapter lifecycle and message events *)

\* client.on('qr'): both files start qrcode.toDataURL(qr) and suspend
QrEvent(q) ==
    /\ Room
    /\ tasks' = Suspend([NewTask("qr", NoSock, q, "idle", "idle")
                            EXCEPT !.seq = BagCardinality(PendingQr)])
    /\ Step(Op("qr", "qr", NoSock, q, ""), <<>>, NoRes, <<"toDataURL">>)
    /\ UNCHANGED <<program, lastQr, readyAt, info, sockets>>

\* the try body of client.on('qr') after toDataURL resolved with url
QrPushes(url) ==
    <<IoEmit("qr", url, <<>>), IoEmit("status", "qr", <<>>)>>

\* lastQr after the qr handler resumed (part_000 keeps no cache)
QrCache(url) == IF program = "server" THEN url ELSE lastQr

\* the suspended handlers once qr handler t has ended with pushes: the qr
\* handlers that arrived before t and still await their encoding have been
\* overtaken; those that arrived after t move up
QrLeaves(t, pushes) ==
    LET Shift(u) ==
            IF u.kind # "qr" THEN u
            ELSE [u EXCEPT !.seq = IF @ > t.seq THEN @ - 1 ELSE @,
                           !.overtaken = IF pushes # <<>> /\ u.seq < t.seq
                                         THEN @ \cup sockets ELSE @]
    IN  BagOfAll(Shift, Finish(t))

\* faulty variant: a challenge that could not be encoded empties the cache
QrFailureCacheCleared == Null

\* the catch of client.on('qr'): it only logs
QrFailureCache  == lastQr
QrFailurePushes == <<>>

ToDataURLSettles(t, ok) ==
    /\ t \in Suspended
    /\ t.kind = "qr"
    /\ IF ok
       THEN /\ lastQr' = QrCache(DataURL(t.arg))
            /\ Step(Op("toDataURL", "qr", NoSock, t.arg, "resolved"),
                    QrPushes(DataURL(t.arg)), NoRes, <<>>)
       ELSE /\ lastQr' = QrFailureCache
            /\ Step(Op("toDataURL", "qr", NoSock, t.arg, "rejected"),
                    QrFailurePushes, NoRes, <<>>)
    /\ tasks' = QrLeaves(t, out')
    /\ UNCHANGED <<program, readyAt, info, sockets>>

\* the synchronous part of client.on('ready'), server.js and part_000
ReadyPushes == <<IoEmit("status", "ready", <<>>)>>

\* the Adapter sets client.info, then emits ready.  Nothing in either file
\* assigns client.info, and the Adapter sets it only here: it stays set
\* through logout and disconnection
ReadyEvent(p, t) ==
    /\ info' = InfoOf(p)
    /\ IF program = "server"
       THEN /\ Room
            /\ readyAt' = t
            /\ tasks' = Overtake(ReadyPushes)
                           (+) SetToBag({NewTask("ready", NoSock, "", "getContacts", "idle")})
            /\ Step(Op("ready", "ready", NoSock, "", ""), ReadyPushes, NoRes,
                    <<"getContacts">>)
       ELSE /\ readyAt' = readyAt
            /\ tasks' = Overtake(ReadyPushes)
            /\ Step(Op("ready", "ready", NoSock, "", ""), ReadyPushes, NoRes, <<>>)
    /\ UNCHANGED <<program, lastQr, sockets>>

\* faulty variant: the message is pushed without its sender and text
MessagePushesIdOnly(m) == <<IoEmit("message", m.id, <<[id |-> m.id]>>)>>

\* io.emit('message', {from, body, id})
MessagePushes(m) == <<IoEmit("message", m.id, <<m>>)>>

\* client.on('message'): server.js only; part_000 registers no listener
MessageEvent(m) ==
    /\ IF program = "server"
       THEN /\ Room
            /\ tasks' = Overtake(MessagePushes(m))
                           (+) SetToBag({NewTask("message", NoSock, m.id, "idle", "getChats")})
            /\ Step(Op("message", "message", NoSock, m.id, ""), MessagePushes(m), NoRes,
                    <<"getChats">>)
       ELSE /\ tasks' = tasks
            /\ Step(Op("message", "message", NoSock, m.id, ""), <<>>, NoRes, <<>>)
    /\ UNCHANGED <<program, lastQr, readyAt, info, sockets>>

\* server.js registers listeners for qr, ready and message only: an
\* authenticated, auth_failure or disconnected event reaches no handler
UnhandledPushes == <<>>

\* part_000: client.on('authenticated') only logs
AuthenticatedPushes == <<>>
\* part_000: client.on('auth_failure')
AuthFailurePushes == <<IoEmit("status", "auth_failure", <<>>)>>
\* part_000: client.on('disconnected')
DisconnectedPushes == <<IoEmit("status", "disconnected", <<>>)>>

AuthenticatedEvent ==
    /\ Step(Op("authenticated", "authenticated", NoSock, "", ""),
            IF program = "server" THEN UnhandledPushes ELSE AuthenticatedPushes,
            NoRes, <<>>)
    /\ UNCHANGED <<program, lastQr, readyAt, info, sockets, tasks>>

AuthFailureEvent ==
    /\ Step(Op("auth_failure", "auth_failure", NoSock, "", ""),
            IF program = "server" THEN UnhandledPushes ELSE AuthFailurePushes,
            NoRes, <<>>)
    /\ tasks' = Overtake(out')
    /\ UNCHANGED <<program, lastQr, readyAt, info, sockets>>

DisconnectedEvent ==
    /\ Step(Op("disconnected", "disconnected", NoSock, "", ""),
            IF program = "server" THEN UnhandledPushes ELSE DisconnectedPushes,
            NoRes, <<>>)
    /\ tasks' = Overtake(out')
    /\ UNCHANGED <<program, lastQr, readyAt, info, sockets>>

-----------------------------------------------------------------------------
(* Handlers resuming after fetchContacts() / fetchChats() *)

Outcome(keep, task, pushes, response, started) ==
    [keep |-> keep, task |-> task, out |-> pushes, res |-> response, calls |-> started]

\* faulty variant: the contacts are broadcast as soon as they are fetched
ResumeReadyEager(t) ==
    IF t.cst = "failed" \/ t.hst = "failed"
    THEN Outcome(FALSE, t, <<>>, NoRes, <<>>)
    ELSE IF t.cst = "done" /\ t.hst = "idle"
    THEN Outcome(TRUE, [t EXCEPT !.hst = "getChats"],
                 <<IoEmit("contacts", "", t.acc)>>, NoRes, <<"getChats">>)
    ELSE IF t.cst = "done" /\ t.hst = "done"
    THEN Outcome(FALSE, t, <<IoEmit("chats", "", t.chats)>>, NoRes, <<>>)
    ELSE Outcome(TRUE, t, <<>>, NoRes, <<>>)

\* client.on('ready') after its first await: fetchContacts, then fetchChats,
\* then both pushes; the catch ends the handler on the first failure
ResumeReady(t) ==
    IF t.cst = "failed" \/ t.hst = "failed"
    THEN Outcome(FALSE, t, <<>>, NoRes, <<>>)
    ELSE IF t.cst = "done" /\ t.hst = "idle"
    THEN Outcome(TRUE, [t EXCEPT !.hst = "getChats"], <<>>, NoRes, <<"getChats">>)
    ELSE IF t.cst = "done" /\ t.hst = "done"
    THEN Outcome(FALSE, t,
                 <<IoEmit("contacts", "", t.acc), IoEmit("chats", "", t.chats)>>,
                 NoRes, <<>>)
    ELSE Outcome(TRUE, t, <<>>, NoRes, <<>>)

\* client.on('message') after await fetchChats()
ResumeMessage(t) ==
    IF t.hst = "failed" THEN Outcome(FALSE, t, <<>>, NoRes, <<>>)
    ELSE IF t.hst = "done"
    THEN Outcome(FALSE, t, <<IoEmit("chats", "", t.chats)>>, NoRes, <<>>)
    ELSE Outcome(TRUE, t, <<>>, NoRes, <<>>)

\* socket.on('request-data') after await Promise.all([fetchContacts(), fetchChats()]):
\* both pushes once both resolved, nothing once either rejected
ResumeRequestData(t) ==
    IF t.cst = "done" /\ t.hst = "done"
    THEN Outcome(FALSE, t,
                 <<SocketEmit(t.sock, "contacts", "", t.acc),
                   SocketEmit(t.sock, "chats", "", t.chats)>>,
                 NoRes, <<>>)
    ELSE IF Settled(t.cst) /\ Settled(t.hst)
    THEN Outcome(FALSE, t, <<>>, NoRes, <<>>)
    ELSE Outcome(TRUE, t, <<>>, NoRes, <<>>)

\* app.get('/api/contacts') after await fetchContacts()
ResumeGetContacts(t) ==
    IF t.cst = "done"
    THEN Outcome(FALSE, t, <<>>, Response(200, TRUE, "", t.acc), <<>>)
    ELSE IF t.cst = "failed"
    THEN Outcome(FALSE, t, <<>>, Response(500, FALSE, "error", <<>>), <<>>)
    ELSE Outcome(TRUE, t, <<>>, NoRes, <<>>)

\* faulty variant: a failed fetch is answered like an empty list
ResumeGetChatsFailureHidden(t) ==
    IF Settled(t.hst)
    THEN Outcome(FALSE, t, <<>>, Response(200, TRUE, "", t.chats), <<>>)
    ELSE Outcome(TRUE, t, <<>>, NoRes, <<>>)

\* app.get('/api/chats') after await fetchChats()
ResumeGetChats(t) ==
    IF t.hst = "done"
    THEN Outcome(FALSE, t, <<>>, Response(200, TRUE, "", t.chats), <<>>)
    ELSE IF t.hst = "failed"
    THEN Outcome(FALSE, t, <<>>, Response(500, FALSE, "error", <<>>), <<>>)
    ELSE Outcome(TRUE, t, <<>>, NoRes, <<>>)

Resume(t) ==
    CASE t.kind = "ready"        -> ResumeReady(t)
      [] t.kind = "message"      -> ResumeMessage(t)
      [] t.kind = "request-data" -> ResumeRequestData(t)
      [] t.kind = "contacts"     -> ResumeGetContacts(t)
      [] t.kind = "chats"        -> ResumeGetChats(t)

\* suspended handler t0 moved to t: run it up to the next await
Advance(t0, name, t, note, input, started) ==
    LET r == Resume(t)
    IN  /\ tasks' = IF r.keep THEN Replace(t0, r.task) ELSE Finish(t0)
        /\ Step(OpIn(name, t.kind, t.sock, t.arg, note, input), r.out, r.res,
                started \o r.calls)
        /\ UNCHANGED <<program, lastQr, readyAt, info, sockets>>

\* fetchContacts: await client.getContacts() settles
AfterGetContacts(t, ok, raw) ==
    IF ~ok THEN [t EXCEPT !.cst = "failed"]
    ELSE IF raw = <<>> THEN [t EXCEPT !.cst = "done"]
    ELSE [t EXCEPT !.cst = "getContactById", !.raw = raw]

GetContactsSettles(t0, ok, raw) ==
    /\ t0 \in Suspended
    /\ t0.cst = "getContacts"
    /\ LET t == AfterGetContacts(t0, ok, raw)
       IN  Advance(t0, "getContacts", t, IF ok THEN "resolved" ELSE "rejected",
                   IF ok THEN raw ELSE <<>>,
                   IF t.cst = "getContactById" THEN <<"getContactById">> ELSE <<>>)

\* faulty variant: a contact whose presence lookup threw is left out
AfterGetContactByIdSkipping(t, outcome, time) ==
    [t EXCEPT !.acc = IF outcome = "throws" THEN @
                      ELSE Append(@, ProjectContact(t.raw[Len(t.acc) + 1],
                                                    LastSeenOf(outcome, time))),
              !.raw = IF outcome = "throws"
                      THEN SubSeq(@, 1, Len(t.acc)) \o SubSeq(@, Len(t.acc) + 2, Len(@))
                      ELSE @,
              !.cst = IF Len(t.acc) + 1 = Len(t.raw) THEN "done" ELSE "getContactById"]

\* fetchContacts: one turn of the loop over contactsRaw, await
\* client.getContactById(id) settles; the contact at hand is the one behind
\* those already pushed to out
AfterGetContactById(t, outcome, time) ==
    [t EXCEPT !.acc = Append(@, ProjectContact(t.raw[Len(t.acc) + 1],
                                               LastSeenOf(outcome, time))),
              !.cst = IF Len(t.acc) + 1 = Len(t.raw) THEN "done" ELSE "getContactById"]

GetContactByIdSettles(t0, outcome, time) ==
    /\ t0 \in Suspended
    /\ t0.cst = "getContactById"
    /\ LET t == AfterGetContactById(t0, outcome, time)
       IN  Advance(t0, "getContactById", t, outcome, <<>>,
                   IF t.cst = "getContactById" THEN <<"getContactById">> ELSE <<>>)

\* fetchChats: await client.getChats() settles
AfterGetChats(t, ok, raw, clock) ==
    IF ok THEN [t EXCEPT !.hst = "done", !.chats = FetchChats(raw, clock)]
    ELSE [t EXCEPT !.hst = "failed"]

GetChatsSettles(t0, ok, raw, clock) ==
    /\ t0 \in Suspended
    /\ t0.hst = "getChats"
    /\ Advance(t0, "getChats", AfterGetChats(t0, ok, raw, clock),
               IF ok THEN "resolved" ELSE "rejected", IF ok THEN raw ELSE <<>>, <<>>)

-----------------------------------------------------------------------------
(* Control surface: REST handlers *)

SendTos    == {Undefined, "", "111@c.us"}
SendBodies == {Undefined, "", "hi"}

\* faulty variant: only the recipient is validated
SendInvalidToOnly(to, body) == ~Truthy(to)

\* if (!to || !body)
SendInvalid(to, body) == ~Truthy(to) \/ ~Truthy(body)

\* app.post('/api/send'), the same in server.js and part_000
Send(to, body) ==
    /\ IF SendInvalid(to, body)
       THEN /\ tasks' = tasks
            /\ Step(Op("send", "send", NoSock, to, body), <<>>,
                    Response(400, FALSE, "to and body required", <<>>), <<>>)
       ELSE /\ Room
            /\ tasks' = Suspend(NewTask("send", NoSock, to, "idle", "idle"))
            /\ Step(Op("send", "send", NoSock, to, body), <<>>, NoRes, <<"sendMessage">>)
    /\ UNCHANGED <<program, lastQr, readyAt, info, sockets>>

\* await client.sendMessage(to, body) settles
SendResponse(ok) ==
    IF ok THEN Response(200, TRUE, "msgid", <<>>)
    ELSE Response(500, FALSE, "error", <<>>)

SendMessageSettles(t, ok) ==
    /\ t \in Suspended
    /\ t.kind = "send"
    /\ tasks' = Finish(t)
    /\ Step(Op("sendMessage", "send", NoSock, t.arg,
               IF ok THEN "resolved" ELSE "rejected"),
            <<>>, SendResponse(ok), <<>>)
    /\ UNCHANGED <<program, lastQr, readyAt, info, sockets>>

\* app.get('/api/profile'): const info = client.info || null
GetProfile ==
    /\ program = "server"
    /\ Step(Op("profile", "profile", NoSock, "", ""), <<>>,
            Response(200, TRUE, IF info.present THEN info.pushname ELSE Null, <<>>), <<>>)
    /\ UNCHANGED <<program, lastQr, readyAt, info, sockets, tasks>>

\* app.get('/api/contacts')
GetContacts ==
    /\ program = "server"
    /\ Room
    /\ tasks' = Suspend(NewTask("contacts", NoSock, "", "getContacts", "idle"))
    /\ Step(Op("contacts", "contacts", NoSock, "", ""), <<>>, NoRes, <<"getContacts">>)
    /\ UNCHANGED <<program, lastQr, readyAt, info, sockets>>

\* app.get('/api/chats')
GetChats ==
    /\ program = "server"
    /\ Room
    /\ tasks' = Suspend(NewTask("chats", NoSock, "", "idle", "getChats"))
    /\ Step(Op("chats", "chats", NoSock, "", ""), <<>>, NoRes, <<"getChats">>)
    /\ UNCHANGED <<program, lastQr, readyAt, info, sockets>>

\* app.post('/api/logout') up to await client.logout()
Logout ==
    /\ program = "server"
    /\ Room
    /\ tasks' = Suspend(NewTask("logout", NoSock, "", "idle", "idle"))
    /\ Step(Op("logout", "logout", NoSock, "", ""), <<>>, NoRes, <<"logout">>)
    /\ UNCHANGED <<program, lastQr, readyAt, info, sockets>>

\* faulty variant: the cached challenge survives a logout
LogoutCacheKept(ok) == lastQr

\* app.post('/api/logout') after client.logout() settled: the rest of the
\* try body when it resolved, the catch when it rejected
LogoutCache(ok)    == IF ok THEN Null ELSE lastQr
LogoutPushes(ok)   == IF ok THEN <<IoEmit("status", "disconnected", <<>>)>> ELSE <<>>
LogoutResponse(ok) == IF ok THEN Response(200, TRUE, "", <<>>)
                      ELSE Response(500, FALSE, "error", <<>>)

LogoutSettles(t, ok) ==
    /\ t \in Suspended
    /\ t.kind = "logout"
    /\ tasks' = Finish(t)
    /\ lastQr' = LogoutCache(ok)
    /\ Step(Op("client.logout", "logout", NoSock, "",
               IF ok THEN "resolved" ELSE "rejected"),
            LogoutPushes(ok), LogoutResponse(ok), <<>>)
    /\ UNCHANGED <<program, readyAt, info, sockets>>

-----------------------------------------------------------------------------
(* Specifications.  The handlers are checked in groups, each with the       *)
(* Adapter events that set the state its handlers read.                      *)

\* an awaited Adapter call of a suspended handler resolves or rejects.  Every
\* chat of AdapterChatLists carries a timestamp of its own or of its last
\* message, so fetchChats does not read the clock for them
FetchSettles ==
    \/ \E h \in Suspended, raw \in AdapterContactLists : GetContactsSettles(h, TRUE, raw)
    \/ \E h \in Suspended : GetContactsSettles(h, FALSE, <<>>)
    \/ \E h \in Suspended, o \in PresenceOutcomes \ {"known"} :
          GetContactByIdSettles(h, o, NoDate)
    \/ \E h \in Suspended, t \in Times : GetContactByIdSettles(h, "known", t)
    \/ \E h \in Suspended, raw \in AdapterChatLists, t \in Times :
          GetChatsSettles(h, TRUE, raw, SteadyClock(Len(raw), t))
    \/ \E h \in Suspended : GetChatsSettles(h, FALSE, <<>>, <<>>)

\* session lifecycle and fan-out: the Adapter's events, logout, and sockets
\* connecting and disconnecting
Next ==
    \/ \E s \in Channels : Connection(s)
    \/ \E s \in Channels : Disconnect(s)
    \/ \E q \in Challenges : QrEvent(q)
    \/ \E h \in Suspended, ok \in BOOLEAN : ToDataURLSettles(h, ok)
    \/ \E p \in Pushnames : ReadyEvent(p, MaxClock)
    \/ \E m \in Messages : MessageEvent(m)
    \/ AuthenticatedEvent
    \/ AuthFailureEvent
    \/ DisconnectedEvent
    \/ FetchSettles
    \/ Logout
    \/ \E h \in Suspended, ok \in BOOLEAN : LogoutSettles(h, ok)

Spec == Init /\ [][Next]_vars

\* request-data from the sockets: before the session is ready, while it is,
\* and after a logout has ended it
RequestNext ==
    \/ \E s \in Channels : Connection(s)
    \/ \E s \in Channels : Disconnect(s)
    \/ \E s \in Channels : RequestData(s)
    \/ ReadyEvent("Alice", MaxClock)
    \/ FetchSettles
    \/ Logout
    \/ \E h \in Suspended, ok \in BOOLEAN : LogoutSettles(h, ok)

RequestSpec == Init /\ [][RequestNext]_vars

\* the REST handlers, before and after the session is ready
RestNext ==
    \/ \E s \in Channels : Connection(s)
    \/ \E p \in Pushnames : ReadyEvent(p, MaxClock)
    \/ FetchSettles
    \/ \E to \in SendTos, body \in SendBodies : Send(to, body)
    \/ \E h \in Suspended, ok \in BOOLEAN : SendMessageSettles(h, ok)
    \/ GetProfile
    \/ GetContacts
    \/ GetChats

RestSpec == Init /\ [][RestNext]_vars

\* fetchChats on every raw chat list, through GET /api/chats
ChatsNext ==
    \/ GetChats
    \/ \E h \in Suspended, raw \in RawChatLists :
          \E clock \in Clocks(Len(raw)) : GetChatsSettles(h, TRUE, raw, clock)
    \/ \E h \in Suspended : GetChatsSettles(h, FALSE, <<>>, <<>>)

ChatsSpec == Init /\ [][ChatsNext]_vars

\* fetchContacts on every raw contact list, through GET /api/contacts, one
\* request at a time
ContactsNext ==
    \/ tasks = EmptyBag /\ GetContacts
    \/ \E h \in Suspended, raw \in RawContactLists : GetContactsSettles(h, TRUE, raw)
    \/ \E h \in Suspended : GetContactsSettles(h, FALSE, <<>>)
    \/ \E h \in Suspended, o \in PresenceOutcomes \ {"known"} :
          GetContactByIdSettles(h, o, NoDate)
    \/ \E h \in Suspended, t \in Times : GetContactByIdSettles(h, "known", t)

ContactsSpec == Init /\ [][ContactsNext]_vars

\* every handler that awaits an Adapter call, each call resolving or rejecting
FailureNext ==
    \/ Connection("s1")
    \/ RequestData("s1")
    \/ ReadyEvent("Alice", MaxClock)
    \/ \E m \in Messages : MessageEvent(m)
    \/ FetchSettles
    \/ Send("111@c.us", "hi")
    \/ \E h \in Suspended, ok \in BOOLEAN : SendMessageSettles(h, ok)
    \/ GetContacts
    \/ GetChats
    \/ Logout
    \/ \E h \in Suspended, ok \in BOOLEAN : LogoutSettles(h, ok)

FailureSpec == Init /\ [][FailureNext]_vars

\* the two handlers that push the contacts and the chats together
PairNext ==
    \/ \E s \in Channels : Connection(s)
    \/ RequestData("s1")
    \/ ReadyEvent("Alice", MaxClock)
    \/ FetchSettles

PairSpec == Init /\ [][PairNext]_vars

\* incoming messages and the chats refresh each one starts
MessageNext ==
    \/ \E s \in Channels : Connection(s)
    \/ \E s \in Channels : Disconnect(s)
    \/ \E m \in IncomingMessages : MessageEvent(m)
    \/ \E h \in Suspended, raw \in AdapterChatLists :
          GetChatsSettles(h, TRUE, raw, SteadyClock(Len(raw), MaxClock))
    \/ \E h \in Suspended : GetChatsSettles(h, FALSE, <<>>, <<>>)

MessageSpec == Init /\ [][MessageNext]_vars

\* challenges, each encoded or not, with sockets connecting in between
QrNext ==
    \/ \E s \in Channels : Connection(s)
    \/ \E s \in Channels : Disconnect(s)
    \/ \E q \in Challenges : QrEvent(q)
    \/ \E h \in Suspended, ok \in BOOLEAN : ToDataURLSettles(h, ok)

QrSpec == Init /\ [][QrNext]_vars

-----------------------------------------------------------------------------
(* The session phase, as subscribers are told it.  The bridge keeps no      *)
(* phase variable: the phase is the one named by the last status broadcast. *)

PhaseOf(status) ==
    CASE status = "qr"           -> "AwaitingScan"
      [] status = "ready"        -> "Ready"
      [] status = "connected"    -> "Ready"
      [] status = "disconnected" -> "Disconnected"
      [] status = "auth_failure" -> "AuthFailed"
      [] OTHER                   -> "Uninitialized"

Phase == PhaseOf(lastBroadcast)

\* the status named by the last status push among pushes
RECURSIVE LastStatusText(_)
LastStatusText(pushes) ==
    IF pushes = <<>> THEN NoStatus
    ELSE IF pushes[Len(pushes)].event = "status" THEN pushes[Len(pushes)].text
    ELSE LastStatusText(SubSeq(pushes, 1, Len(pushes) - 1))

AllTo(pushes, target) == \A k \in 1..Len(pushes) : pushes[k].to = target

-----------------------------------------------------------------------------
(* C1 *)

\* socket s connects while the last broadcast status was qr and a challenge
\* is cached
C1_Connects(s) ==
    /\ Phase = "AwaitingScan"
    /\ Truthy(lastQr)
    /\ op'.name = "connection"
    /\ op'.sock = s

\* C1 as stated: the connecting socket gets exactly two pushes, a status push
\* naming AwaitingScan and then the qr push with the cached challenge.
C1_Original ==
    [][\A s \in Channels : C1_Connects(s) =>
          /\ Len(out') = 2
          /\ AllTo(out', {s})
          /\ out'[1].event = "status" /\ PhaseOf(out'[1].text) = "AwaitingScan"
          /\ out'[2].event = "qr" /\ out'[2].text = lastQr]_vars

\* C1, amended: a socket that connects while phase = AwaitingScan and a
\* challenge is cached gets exactly three pushes, in this order: a status push
\* naming connected or initializing (by client.info's pushname), the qr push
\* with the cached challenge, and a status push naming qr (AwaitingScan).
C1_ConnectReplay ==
    [][\A s \in Channels : C1_Connects(s) =>
          out' = << Push("socket", {s}, "status",
                         IF info.present /\ info.pushname = "Alice"
                         THEN "connected" ELSE "initializing", <<>>),
                    Push("socket", {s}, "qr", lastQr, <<>>),
                    Push("socket", {s}, "status", "qr", <<>>) >>]_vars

C1_Witness ==
    /\ op.name = "connection"
    /\ Phase = "AwaitingScan"
    /\ Len(out) = 3
    /\ out[2].event = "qr" /\ out[2].text = lastQr /\ Truthy(lastQr)
    /\ out[3].text = "qr"

-----------------------------------------------------------------------------
(* C2 *)

\* the Adapter's profile, when there is one, carries a pushname: the sessions
\* whose connect status is "connected"
ProfileNamed == info.present => Truthy(info.pushname)

\* C2 as stated: a socket connecting while phase = Ready gets exactly one
\* push, a status push naming Ready, and no qr push.  (Stated for sessions
\* whose profile carries a pushname, where the connect status names Ready.)
C2_Original ==
    [][(Phase = "Ready" /\ ProfileNamed /\ info.present /\ op'.name = "connection") =>
          /\ Len(out') = 1
          /\ out'[1].event = "status"
          /\ PhaseOf(out'[1].text) = "Ready"]_vars

-----------------------------------------------------------------------------
(* C3 *)

\* C3 as stated: every logout, whether client.logout() resolves or rejects,
\* ends with phase = Disconnected, no cached challenge, and a disconnected
\* status broadcast to the connected sockets.
C3_Original ==
    [][op'.name = "client.logout" =>
          /\ Phase' = "Disconnected"
          /\ lastQr' = Null
          /\ out' = <<Push("io", sockets, "status", "disconnected", <<>>)>>]_vars

\* C3, amended: a logout whose client.logout() resolves ends with phase =
\* Disconnected and no cached challenge, broadcasts a disconnected status to
\* every connected socket and answers 200; one whose client.logout() rejects
\* leaves phase and cached challenge as they were, broadcasts nothing and
\* answers 500.
C3_Logout ==
    [][op'.name = "client.logout" =>
          IF op'.b = "resolved"
          THEN /\ Phase' = "Disconnected"
               /\ lastQr' = Null
               /\ out' = <<Push("io", sockets, "status", "disconnected", <<>>)>>
               /\ res'.code = 200 /\ res'.ok
          ELSE /\ lastBroadcast' = lastBroadcast
               /\ lastQr' = lastQr
               /\ out' = <<>>
               /\ res'.code = 500 /\ ~res'.ok]_vars

C3_Witness ==
    /\ op.name = "client.logout" /\ op.b = "resolved"
    /\ sockets = Channels
    /\ Len(out) = 1 /\ out[1].to = Channels
    /\ readyAt # NoDate
    /\ lastQr = Null

-----------------------------------------------------------------------------
(* C4 *)

\* the lifecycle event a step applies: a challenge counts once it is encoded,
\* a logout once client.logout() resolved
LifecycleEvent(o) ==
    CASE o.name = "toDataURL" /\ o.b = "resolved"     -> "challenge"
      [] o.name = "authenticated"                     -> "authenticated"
      [] o.name = "ready"                             -> "ready"
      [] o.name = "auth_failure"                      -> "auth_failure"
      [] o.name = "disconnected"                      -> "disconnected"
      [] o.name = "client.logout" /\ o.b = "resolved" -> "logout"
      [] OTHER                                        -> "none"

\* the transition table: the rows that apply from phase ph, and their target
TableHasRow(ph, e) ==
    CASE e = "challenge"     -> ph \in {"Uninitialized", "Disconnected", "AuthFailed"}
      [] e = "authenticated" -> ph = "AwaitingScan"
      [] e = "ready"         -> ph \in {"Authenticated", "AwaitingScan"}
      [] e = "none"          -> FALSE
      [] OTHER               -> TRUE

TableTarget(e) ==
    CASE e = "challenge"     -> "AwaitingScan"
      [] e = "authenticated" -> "Authenticated"
      [] e = "ready"         -> "Ready"
      [] e = "auth_failure"  -> "AuthFailed"
      [] OTHER               -> "Disconnected"

\* C4 as stated: the phase after each lifecycle event is the one the
\* transition table gives for the phase before it, so the phase after any
\* sequence is the table's.
C4_Original ==
    [][TableHasRow(Phase, LifecycleEvent(op')) =>
          Phase' = TableTarget(LifecycleEvent(op'))]_vars

-----------------------------------------------------------------------------
(* C5 *)

\* C5 as stated: whenever phase = Ready, no challenge is cached.
C5_Original == (Phase = "Ready") => (lastQr = Null)

-----------------------------------------------------------------------------
(* C6 *)

\* C6 as stated: an auth_failure event moves the phase to AuthFailed and a
\* disconnected event moves it to Disconnected; each clears the cached
\* challenge and is broadcast as a status push to the connected sockets.
C6_Original ==
    [][op'.name \in {"auth_failure", "disconnected"} =>
          /\ Phase' = TableTarget(op'.name)
          /\ lastQr' = Null
          /\ Len(out') = 1
          /\ out'[1].via = "io" /\ out'[1].event = "status" /\ out'[1].to = sockets]_vars

-----------------------------------------------------------------------------
(* C7 *)

\* C7 as stated: once a status was broadcast, the last status push a
\* connecting socket gets names the phase of the most recent broadcast.
\* (Stated for server.js, the file that keeps the cache, and for sessions
\* whose profile, if any, carries a pushname.)
C7_Original ==
    [][(program = "server" /\ op'.name = "connection" /\ lastBroadcast # NoStatus
        /\ ProfileNamed) =>
          PhaseOf(LastStatusText(out')) = Phase]_vars

-----------------------------------------------------------------------------
(* C8 *)

\* C8: a send whose to or body is empty or missing is answered 400 with
\* ok:false, starts no Adapter call, leaves the session state as it was and
\* pushes nothing.
C8_SendValidation ==
    [][(op'.name = "send" /\ (op'.a \in {Undefined, ""} \/ op'.b \in {Undefined, ""})) =>
          /\ res'.code = 400 /\ ~res'.ok
          /\ calls' = <<>>
          /\ tasks' = tasks
          /\ out' = <<>>
          /\ UNCHANGED <<lastQr, readyAt, info, sockets, lastBroadcast>>]_vars

C8_Witness ==
    /\ op.name = "send"
    /\ op.a = "111@c.us" /\ op.b = ""
    /\ res.code = 400
    /\ readyAt # NoDate
    /\ sockets # {}
    /\ tasks # EmptyBag

-----------------------------------------------------------------------------
(* C9 *)

SortedDesc(list) ==
    \A i, j \in 1..Len(list) :
        i < j => list[i].lastTimestamp >= list[j].lastTimestamp

PositionOf(raw, id) == CHOOSE k \in 1..Len(raw) : raw[k].id = id

TiesKeepOrder(list, raw) ==
    \A i, j \in 1..Len(list) :
        (i < j /\ list[i].lastTimestamp = list[j].lastTimestamp)
            => PositionOf(raw, list[i].id) < PositionOf(raw, list[j].id)

\* C9 as stated: whatever list client.getChats() resolved with, the list
\* fetchChats returns is in descending order of the emitted lastTimestamp,
\* and chats with equal lastTimestamp keep their input order.
C9_Original ==
    (op.name = "getChats" /\ op.kind = "chats" /\ op.b = "resolved") =>
        /\ Len(res.list) = Len(op.input)
        /\ SortedDesc(res.list)
        /\ TiesKeepOrder(res.list, op.input)

-----------------------------------------------------------------------------
(* C10 *)

\* t is a suspended request-data handler and this step ends it
RequestEnds(t) ==
    /\ op'.kind = "request-data"
    /\ op'.name # "request-data"
    /\ t.kind = "request-data"
    /\ tasks' = tasks (-) SetToBag({t})

BothPushes(pushes, target) ==
    /\ Len(pushes) = 2
    /\ pushes[1].event = "contacts"
    /\ pushes[2].event = "chats"
    /\ \A k \in 1..2 : pushes[k].to \subseteq target

\* a request-data made in any phase but Ready starts no fetch, pushes nothing
\* and leaves no handler waiting
NoOpUnlessReady ==
    (op'.name = "request-data" /\ Phase # "Ready") =>
        (calls' = <<>> /\ out' = <<>> /\ tasks' = tasks)

\* C10 as stated: a request-data made while phase = Ready fetches both
\* collections and its handler pushes both to the requester and to no other
\* socket; one made in any other phase starts no fetch and pushes nothing.
\* The handler tests client.info instead of the phase, and client.info
\* outlives the logout that takes the phase from Ready to Disconnected.
C10_Original ==
    [][/\ (op'.kind = "request-data" => \A k \in 1..Len(out') : out'[k].to \subseteq {op'.sock})
       /\ (op'.name = "request-data" /\ Phase = "Ready") =>
              calls' = <<"getContacts", "getChats">>
       /\ NoOpUnlessReady
       /\ \A t \in BagToSet(tasks) : RequestEnds(t) => BothPushes(out', {op'.sock})]_vars

\* the second half of C10 alone: outside Ready a request-data is a no-op
C10_NoOpUnlessReady == [][NoOpUnlessReady]_vars

\* a request-data made after the logout has been answered in full: both
\* collections pushed to the requester while the phase is Disconnected
C10_PushedAfterLogout ==
    /\ Phase = "Disconnected"
    /\ op.kind = "request-data"
    /\ BothPushes(out, {op.sock})
    /\ out[1].to = {op.sock}

-----------------------------------------------------------------------------
(* C11 *)

\* C11 as stated: a socket connected during two Adapter events is sent the
\* status, qr or message pushes of the one that arrived first before those of
\* the one that arrived second; so no client.on('qr') handler sends its
\* pushes to a socket that was already sent the pushes of a later event.
C11_Original ==
    [][\A t \in Suspended :
          (op'.name = "toDataURL" /\ out' # <<>> /\ tasks' = QrLeaves(t, out')
           /\ t.kind = "qr")
              => \A k \in 1..Len(out') : out'[k].to \cap t.overtaken = {}]_vars

-----------------------------------------------------------------------------
(* C12 *)

\* this step resumed suspended handler t
Resumed(t) == CopiesIn(t, tasks') < CopiesIn(t, tasks)

\* t2 is a handler this step suspended, or suspended again
Grown(t2) == CopiesIn(t2, tasks') > CopiesIn(t2, tasks)

\* list is the projection so far once the lookup for the contact at hand of
\* handler t settled: the entries before it as they were, then that contact's
\* entry, without lastSeen when the lookup threw
C12_Extends(list, t) ==
    LET k == Len(t.acc) + 1
    IN  /\ Len(list) = k
        /\ SubSeq(list, 1, k - 1) = t.acc
        /\ list[k].id = t.raw[k].id
        /\ list[k].number = StripDomain(t.raw[k].id)
        /\ list[k].name = OrElse(t.raw[k].name, OrElse(t.raw[k].pushname, list[k].number))
        /\ list[k].pushname = OrElse(t.raw[k].pushname, Null)
        /\ (op'.b = "throws" => list[k].lastSeen = NoDate)

\* C12: fetchContacts returns one projected contact per raw contact of
\* client.getContacts(), in the order received.  A presence lookup that throws
\* leaves that contact's lastSeen absent, leaves the entries before it as they
\* were and does not end the projection: the loop goes on with the same raw
\* list, and after the last contact the list is returned whole (200, ok).
C12_FetchContacts ==
    [][/\ (op'.kind = "contacts" /\ op'.name = "getContacts" /\ op'.b = "resolved") =>
              IF op'.input = <<>>
              THEN res' = Response(200, TRUE, "", <<>>)
              ELSE /\ res' = NoRes
                   /\ \E t2 \in BagToSet(tasks') :
                          Grown(t2) /\ t2.raw = op'.input /\ t2.acc = <<>>
       /\ \A t \in Suspended :
              (op'.kind = "contacts" /\ op'.name = "getContactById" /\ Resumed(t)) =>
                  IF Len(t.acc) + 1 = Len(t.raw)
                  THEN /\ res'.code = 200 /\ res'.ok
                       /\ C12_Extends(res'.list, t)
                       /\ Len(res'.list) = Len(t.raw)
                       /\ \A k \in 1..Len(t.raw) : res'.list[k].id = t.raw[k].id
                  ELSE /\ res' = NoRes
                       /\ \E t2 \in BagToSet(tasks') :
                              Grown(t2) /\ t2.raw = t.raw /\ C12_Extends(t2.acc, t)]_vars

\* two contacts were projected, the lookup of the first threw and that of the
\* second knew a time
C12_Witness ==
    /\ op.kind = "contacts" /\ op.name = "getContactById" /\ op.b = "known"
    /\ res.code = 200
    /\ Len(res.list) = 2
    /\ res.list[1].lastSeen = NoDate /\ res.list[1].id = "111@c.us"
    /\ res.list[2].lastSeen # NoDate /\ res.list[2].id = "222@c.us"

-----------------------------------------------------------------------------
(* C13 *)

\* the handlers that answer an HTTP request, and those run by an Adapter
\* event or a socket message
RestKinds  == {"send", "contacts", "chats", "logout"}
EventKinds == {"ready", "message", "request-data"}

\* the suspended handlers other than t are still suspended as they were
OthersKept(t) ==
    \A u \in Suspended : u # t => CopiesIn(u, tasks') >= CopiesIn(u, tasks)

\* C13: when the Adapter call a REST handler awaits (client.sendMessage,
\* client.getContacts, client.getChats, client.logout) rejects, the handler
\* ends with the response 500, ok:false, and with no push.  When the Adapter
\* fetch awaited by the ready, message or request-data handler rejects, the
\* handler writes no response, pushes nothing and starts no further call;
\* session state, sockets and the other suspended handlers stay as they were.
C13_FailuresHandled ==
    [][\A t \in Suspended :
          (Resumed(t) /\ op'.b = "rejected" /\ op'.kind = t.kind) =>
              /\ t.kind \in RestKinds =>
                     /\ res'.code = 500 /\ ~res'.ok
                     /\ tasks' = Finish(t)
                     /\ out' = <<>>
              /\ t.kind \in EventKinds =>
                     /\ res' = NoRes
                     /\ out' = <<>>
                     /\ calls' = <<>>
                     /\ BagCardinality(tasks') <= BagCardinality(tasks)
              /\ t.kind \in RestKinds \cup EventKinds =>
                     /\ OthersKept(t)
                     /\ UNCHANGED <<lastQr, readyAt, info, sockets, lastBroadcast>>]_vars

\* GET /api/chats was answered 500 after client.getChats() rejected, while
\* another handler was suspended and a socket connected
C13_Witness ==
    /\ op.kind = "chats" /\ op.name = "getChats" /\ op.b = "rejected"
    /\ res.code = 500 /\ ~res.ok
    /\ tasks # EmptyBag
    /\ sockets # {}
    /\ readyAt # NoDate

-----------------------------------------------------------------------------
(* C14 *)

\* C14 as stated: a challenge event or a logout is applied whole before any
\* other event is processed; so while a client.on('qr') or /api/logout
\* handler has started and has not yet updated the cache and broadcast, no
\* step of another handler changes lastQr or readyAt or broadcasts a status.
C14_Original ==
    [][\A t \in Suspended :
          (t.kind \in {"qr", "logout"} /\ ~Resumed(t))
              => UNCHANGED <<lastQr, readyAt, lastBroadcast>>]_vars

-----------------------------------------------------------------------------
(* C15 *)

\* C15 as stated: once client.logout() resolved and the logout handler has
\* run, no challenge is cached, there is no profile and readyAt is unset.
C15_Original ==
    [][(op'.name = "client.logout" /\ op'.b = "resolved") =>
          /\ lastQr' = Null
          /\ readyAt' = NoDate
          /\ ~info'.present]_vars

-----------------------------------------------------------------------------
(* C16 *)

\* C16 as stated: fetchContacts and fetchChats only read: a step of theirs
\* leaves lastQr, readyAt and the broadcast status as they were, and leaves
\* the array the Adapter resolved with as it was handed over.
C16_Original ==
    [][op'.name \in {"getContacts", "getContactById", "getChats"} =>
          /\ UNCHANGED <<lastQr, readyAt, lastBroadcast>>
          /\ op'.left = op'.input]_vars

-----------------------------------------------------------------------------
(* C17 *)

\* this step ended suspended handler t
Ended(t) == Resumed(t) /\ BagCardinality(tasks') < BagCardinality(tasks)

\* pushes is the contacts push followed by the chats push, both sent through
\* via to the sockets in target
ContactsThenChats(pushes, via, target) ==
    /\ Len(pushes) = 2
    /\ pushes[1].event = "contacts" /\ pushes[2].event = "chats"
    /\ \A k \in 1..2 : pushes[k].via = via /\ pushes[k].to = target

\* C17: the ready handler of server.js broadcasts the ready status alone when
\* the event arrives.  A step of the ready handler or of a request-data
\* handler after that emits either nothing or the contacts push followed by
\* the chats push, never one of them alone: the pair is emitted by the step
\* that ends the handler when neither fetch failed (by io.emit to every
\* connected socket for ready, by socket.emit to the requester for
\* request-data), and nothing is emitted when a fetch failed.
C17_AllOrNothing ==
    [][/\ (program = "server" /\ op'.name = "ready") =>
              out' = <<Push("io", sockets, "status", "ready", <<>>)>>
       /\ \A t \in Suspended :
              (Resumed(t) /\ t.kind \in {"ready", "request-data"} /\ op'.kind = t.kind) =>
                  IF Ended(t) /\ op'.b # "rejected" /\ t.cst # "failed" /\ t.hst # "failed"
                  THEN IF t.kind = "ready"
                       THEN ContactsThenChats(out', "io", sockets)
                       ELSE ContactsThenChats(out', "socket", {t.sock} \cap sockets)
                  ELSE out' = <<>>]_vars

\* the ready handler ended with both lists broadcast to two sockets
C17_Witness ==
    /\ op.kind = "ready" /\ op.name = "getChats" /\ op.b = "resolved"
    /\ sockets = Channels
    /\ ContactsThenChats(out, "io", Channels)
    /\ out[1].list # <<>> /\ out[2].list # <<>>

-----------------------------------------------------------------------------
(* C18 *)

\* C18: in server.js, the step in which a message event arrives emits one
\* message push carrying from, body and id of that message, by io.emit to
\* every socket connected at that moment, and starts the chats refresh; so
\* the message pushes are emitted in the order the messages arrived and
\* whatever becomes of the refresh.  When the refresh settles, the handler
\* emits one chats push to every connected socket if client.getChats()
\* resolved and nothing if it rejected, and never a second message push.
C18_MessageFanOut ==
    [][/\ (program = "server" /\ op'.name = "message") =>
              /\ Len(out') = 1
              /\ out'[1].via = "io" /\ out'[1].event = "message" /\ out'[1].to = sockets
              /\ \E m \in IncomingMessages :
                     m.id = op'.a /\ out'[1].list = <<m>>
              /\ calls' = <<"getChats">>
              /\ \E t2 \in BagToSet(tasks') :
                     Grown(t2) /\ t2.kind = "message" /\ t2.hst = "getChats"
       /\ \A t \in Suspended :
              (Resumed(t) /\ t.kind = "message" /\ op'.kind = "message") =>
                  /\ tasks' = Finish(t)
                  /\ IF op'.b = "resolved"
                     THEN /\ Len(out') = 1
                          /\ out'[1].via = "io" /\ out'[1].event = "chats"
                          /\ out'[1].to = sockets
                          /\ Len(out'[1].list) = Len(op'.input)
                     ELSE out' = <<>>]_vars

\* the second message was pushed to both sockets while the refresh started
\* by the first was still awaited
C18_Witness ==
    /\ op.name = "message" /\ op.a = "m2"
    /\ sockets = Channels
    /\ Len(out) = 1 /\ out[1].to = Channels /\ out[1].list[1].from = "333@g.us"
    /\ \E t \in Suspended : t.kind = "message" /\ t.arg = "m1"

-----------------------------------------------------------------------------
(* C19 *)

\* C19: when qrcode.toDataURL rejects, the qr handler ends and the challenge
\* event has had no effect: lastQr keeps the value it had, present or absent,
\* no qr push and no status push is emitted, the broadcast status stays, and
\* the other handlers stay suspended.
C19_EncodingFailure ==
    [][(op'.name = "toDataURL" /\ op'.b = "rejected") =>
          /\ lastQr' = lastQr
          /\ out' = <<>>
          /\ BagCardinality(tasks') = BagCardinality(tasks) - 1
          /\ \E t \in Suspended :
                 t.kind = "qr" /\ t.arg = op'.a /\ tasks' = QrLeaves(t, <<>>)
          /\ UNCHANGED <<readyAt, info, sockets, lastBroadcast>>]_vars

\* the encoding of a second challenge failed while the first was cached and
\* a socket was connected
C19_Witness ==
    /\ op.name = "toDataURL" /\ op.b = "rejected" /\ op.a = "qrB"
    /\ lastQr = DataURL("qrA")
    /\ sockets # {}
    /\ out = <<>>

====
